---- MODULE Spec2Model ----
(***************************************************************************)
(* Model of the mangata pallet (src/src/lib.rs): a store of factorization  *)
(* problems (ProblemsMap) and the two dispatchables submit_problem and     *)
(* resolve_problem, together with the part of the Currency (balances)      *)
(* ledger the dispatchables drive: reserve, unreserve, burn, ration and    *)
(* transfer with ExistenceRequirement::KeepAlive.                          *)
(*                                                                         *)
(* The integer types are scaled down: Number (u128) is 0..NumberMax and    *)
(* Balance is 0..BalanceMax; checked, saturating and wrapping arithmetic   *)
(* is modelled against those maxima.                                       *)
(*                                                                         *)
(* A dispatchable is not run inside a storage transaction (the functions   *)
(* carry no #[transactional] attribute), so whatever a call wrote before   *)
(* returning Err stays written.                                            *)
(*                                                                         *)
(* call and result record the last call made and what it returned; paid    *)
(* is a history variable: for each number, the amount the transfers of     *)
(* resolve_problem have moved out of its submitter's account so far.       *)
(***************************************************************************)
EXTENDS Integers, Sequences, FiniteSets, TLC

VARIABLES ProblemsMap, free, reserved, TotalIssuance, events, call, result,
          paid

vars == <<ProblemsMap, free, reserved, TotalIssuance, events, call, result,
          paid>>

----------------------------------------------------------------------------
(* Bounds of the model *)

\* largest value of the (scaled) Number type
NumberMax == 31

\* largest value of the (scaled) Balance type
BalanceMax == 1023

\* the ledger's ExistentialDeposit (runtime configuration)
ExistentialDeposit == 1

\* at most this many events are deposited in a behaviour
MaxEvents == 4

----------------------------------------------------------------------------
(* Accounts and inputs *)

Users == {"alice", "bob"}

\* PALLET_ID.into_account(): the pallet's treasury pool
account_id == "treasury"

Accounts == Users \cup {account_id}

\* the numbers submitted, the rewards offered and the factors proposed
Numbers == {15, 16}

Rewards == {0, 7, 14}

\* the factor pairs proposed: right and wrong products, prime and composite
\* factors, products beyond NumberMax; each pair in both orders
Swap(S) == S \cup { << p[2], p[1] >> : p \in S }

Answers == Swap({ << 3, 5 >>, << 11, 13 >>, << 4, 4 >>, << 2, 8 >>,
                  << 1, 15 >>, << 3, 3 >> })

\* Option<T>
None == << >>

Some(x) == << x >>

\* struct Problem
Problem(number, reward, solution, submitter, resolver) ==
    [number |-> number, reward |-> reward, solution |-> solution,
     submitter |-> submitter, resolver |-> resolver]

Min(x, y) == IF x <= y THEN x ELSE y

----------------------------------------------------------------------------
(* The primality oracle *)

\* a primality check that takes 1 for a prime
is_prime_from_one(number) ==
    /\ number >= 1
    /\ \A d \in 2..(number - 1) : number % d # 0

\* is_prime: glass_pumpkin's prime::check, which on this range is decided
\* by its trial division
is_prime(number) ==
    /\ number >= 2
    /\ \A d \in 2..(number - 1) : number % d # 0

\* u128::wrapping_mul in the place of checked_mul
wrapping_mul(a, b) == Some((a * b) % (NumberMax + 1))

\* u128::checked_mul: None on overflow
checked_mul(a, b) == IF a * b > NumberMax THEN None ELSE Some(a * b)

\* a product check that leaves the primality of the factors out
wrong_answer_product_only(number, a, b) ==
    LET multiplied == checked_mul(a, b)
    IN  multiplied = None \/ multiplied[1] # number

\* the product check of resolve_problem: TRUE when the call must fail with
\* WrongAnswer (overflowing product, wrong product, or a non-prime factor)
wrong_answer(number, a, b) ==
    LET multiplied == checked_mul(a, b)
    IN  \/ multiplied = None
        \/ multiplied[1] # number
        \/ ~ is_prime(a)
        \/ ~ is_prime(b)

----------------------------------------------------------------------------
(* The Currency ledger.  A ledger value L is a record                      *)
(*   [free, reserved : Accounts -> Balance, issuance : Balance]            *)
(* and an operation that can fail returns [err, L], with L unchanged when  *)
(* err is not "Ok" (a single ledger operation writes nothing on failure).  *)

Ledger(f, r, i) == [free |-> f, reserved |-> r, issuance |-> i]

total(L, who) == L.free[who] + L.reserved[who]

\* Currency::reserve(who, value)
reserve(L, who, value) ==
    IF value = 0 THEN [err |-> "Ok", L |-> L]
    ELSE IF L.free[who] < value THEN [err |-> "InsufficientBalance", L |-> L]
    ELSE IF L.reserved[who] + value > BalanceMax THEN [err |-> "Overflow", L |-> L]
    ELSE [err |-> "Ok",
          L |-> [L EXCEPT !.free[who] = @ - value, !.reserved[who] = @ + value]]

\* Currency::unreserve(who, value): releases at most what is reserved
unreserve(L, who, value) ==
    LET actual == Min(L.reserved[who], value)
    IN  [L EXCEPT !.reserved[who] = @ - actual,
                  !.free[who] = Min(@ + actual, BalanceMax)]

\* Currency::burn(amount): lowers the total issuance by at most what is
\* issued and returns a positive imbalance of that size
burn(L, amount) ==
    LET burnt == Min(L.issuance, amount)
    IN  [imbalance |-> burnt, L |-> [L EXCEPT !.issuance = @ - burnt]]

\* an imbalance that is forgotten instead of dropped
drop_imbalance_forget(L, amount) == L

\* dropping a PositiveImbalance adds it back to the total issuance
drop_imbalance(L, amount) ==
    [L EXCEPT !.issuance = Min(@ + amount, BalanceMax)]

\* Balance::saturating_mul
saturating_mul(x, y) == IF x * y > BalanceMax THEN BalanceMax ELSE x * y

\* a ration that floors both parts
ration_floor_both(peek, first, second) ==
    << saturating_mul(peek, first) \div (first + second),
       saturating_mul(peek, second) \div (first + second) >>

\* Imbalance::ration(first, second): split in about the ratio first:second,
\* the second part being what the first leaves
ration(peek, first, second) ==
    LET amount1 == saturating_mul(peek, first) \div (first + second)
        part1 == Min(peek, amount1)
    IN  << part1, peek - part1 >>

\* Currency::transfer(transactor, dest, value, ExistenceRequirement::KeepAlive)
transfer(L, transactor, dest, value) ==
    IF value = 0 \/ transactor = dest THEN [err |-> "Ok", L |-> L]
    ELSE IF L.free[transactor] < value THEN [err |-> "InsufficientBalance", L |-> L]
    ELSE IF L.free[dest] + value > BalanceMax THEN [err |-> "Overflow", L |-> L]
    ELSE IF total(L, dest) + value < ExistentialDeposit
         THEN [err |-> "ExistentialDeposit", L |-> L]
    ELSE IF L.free[transactor] - value < ExistentialDeposit
         THEN [err |-> "KeepAlive", L |-> L]
    ELSE [err |-> "Ok",
          L |-> [L EXCEPT !.free[transactor] = @ - value, !.free[dest] = @ + value]]

----------------------------------------------------------------------------
(* The problem store *)

\* a submit_problem that never finds the number in the store
contains_key_never(map, number) == FALSE

\* ProblemsMap::contains_key(number)
contains_key(map, number) == number \in DOMAIN map

\* an insert that replaces the whole store by the new record
insert_alone(map, number, problem) ==
    [n \in {number} |-> problem]

\* ProblemsMap::insert(number, problem)
insert(map, number, problem) ==
    [n \in DOMAIN map \cup {number} |-> IF n = number THEN problem ELSE map[n]]

\* a mutate whose closure assigns the solution through the reference and
\* nothing else
mutate_solution_only(map, number, problem) ==
    [stored |-> [map EXCEPT ![number].solution = problem.solution],
     ret |-> problem]

\* ProblemsMap::mutate(number, f) as resolve_problem calls it: the closure
\* |_| Problem { .. } never assigns through the reference it is handed, it
\* returns the new Problem as the closure's result; mutate writes the stored
\* value back as it was and hands that result to the caller.
mutate(map, number, problem) ==
    [stored |-> map, ret |-> problem]

\* the events a call deposits
ProblemSubmited(number, reward, who) ==
    [kind |-> "ProblemSubmited", number |-> number, reward |-> reward,
     a |-> 0, b |-> 0, who |-> who]

ProblemResolved(number, a, b, who) ==
    [kind |-> "ProblemResolved", number |-> number, reward |-> 0,
     a |-> a, b |-> b, who |-> who]

\* the record of the last call made
Call(op, who, number, reward, a, b, to_resolver, to_treasury) ==
    [op |-> op, who |-> who, number |-> number, reward |-> reward,
     a |-> a, b |-> b, to_resolver |-> to_resolver, to_treasury |-> to_treasury]

----------------------------------------------------------------------------
(* The state after construction: an empty store, the genesis balances *)

GenesisFree == [w \in Accounts |->
                  IF w = "alice" THEN 20 ELSE IF w = "bob" THEN 7 ELSE 0]

Init ==
    /\ ProblemsMap = << >>
    /\ free = GenesisFree
    /\ reserved = [w \in Accounts |-> 0]
    /\ TotalIssuance = GenesisFree["alice"] + GenesisFree["bob"] + GenesisFree[account_id]
    /\ events = << >>
    /\ call = Call("none", "alice", 0, 0, 0, 0, 0, 0)
    /\ result = "None"
    /\ paid = [n \in Numbers |-> 0]

\* what a call returns and writes: its result, the ledger and the store it
\* leaves, the events it deposits, and (for the record of the call) how much
\* it moved out of the submitter's account
Outcome(res, L, map, deposited, c, moved) ==
    [result |-> res, L |-> L, map |-> map, deposited |-> deposited,
     call |-> c, moved |-> moved]

\* the effects of a call on the state
Commit(o) ==
    /\ ProblemsMap' = o.map
    /\ free' = o.L.free
    /\ reserved' = o.L.reserved
    /\ TotalIssuance' = o.L.issuance
    /\ events' = events \o o.deposited
    /\ paid' = [paid EXCEPT ![o.call.number] = @ + o.moved]
    /\ call' = o.call
    /\ result' = o.result

----------------------------------------------------------------------------
(* The dispatchables *)

\* a submit_problem that inserts the record before it reserves the reward
submit_insert_first(L0, map, who, number, reward) ==
    LET c == Call("submit", who, number, reward, 0, 0, 0, 0)
        r == reserve(L0, who, reward)
        inserted == insert(map, number, Problem(number, reward, None, who, None))
    IN  IF contains_key(map, number)
        THEN Outcome("AlreadySubmitted", L0, map, << >>, c, 0)
        ELSE IF r.err # "Ok"
        THEN Outcome(r.err, r.L, inserted, << >>, c, 0)
        ELSE Outcome("Ok", r.L, inserted,
                     << ProblemSubmited(number, reward, who) >>, c, 0)

\* the body of submit_problem, from the ledger L0 and the store map
submit_call(L0, map, who, number, reward) ==
    LET c == Call("submit", who, number, reward, 0, 0, 0, 0)
        r == reserve(L0, who, reward)
    IN  IF contains_key(map, number)
        THEN Outcome("AlreadySubmitted", L0, map, << >>, c, 0)
        ELSE IF r.err # "Ok"
        THEN Outcome(r.err, r.L, map, << >>, c, 0)
        ELSE Outcome("Ok", r.L,
                     insert(map, number, Problem(number, reward, None, who, None)),
                     << ProblemSubmited(number, reward, who) >>, c, 0)

submit_problem(who, number, reward) ==
    /\ Len(events) < MaxEvents
    /\ Commit(submit_call(Ledger(free, reserved, TotalIssuance), ProblemsMap,
                          who, number, reward))

\* a get that answers a default Problem for a number that is not stored
get_or_default(map, number) ==
    IF number \in DOMAIN map THEN Some(map[number])
    ELSE Some(Problem(number, 0, None, account_id, None))

\* ProblemsMap::get(number)
get(map, number) ==
    IF number \in DOMAIN map THEN Some(map[number]) ELSE None

\* resolve_problem once the answer is accepted: unreserve, burn and ration,
\* the two transfers, the mutate of the store and the event
settle(L0, map, who, problem, a, b) ==
    LET number == problem.number
        L1 == unreserve(L0, problem.submitter, problem.reward)
        bt == burn(L1, problem.reward)
        parts == ration(bt.imbalance, 80, 20)
        to_resolver == parts[1]
        to_treasury == parts[2]
        c == Call("resolve", who, number, 0, a, b, to_resolver, to_treasury)
        t1 == transfer(bt.L, problem.submitter, who, to_resolver)
        t2 == transfer(t1.L, problem.submitter, account_id, to_treasury)
        moved1 == IF problem.submitter # who THEN to_resolver ELSE 0
        moved2 == IF problem.submitter # account_id THEN to_treasury ELSE 0
        \* both imbalances are dropped when the function returns
        dropped(L) == drop_imbalance(drop_imbalance(L, to_resolver), to_treasury)
        m == mutate(map, number,
                    Problem(number, problem.reward, Some(<< a, b >>),
                            problem.submitter, Some(who)))
    IN  IF t1.err # "Ok"
        THEN Outcome(t1.err, dropped(t1.L), map, << >>, c, 0)
        ELSE IF t2.err # "Ok"
        THEN Outcome(t2.err, dropped(t2.L), map, << >>, c, moved1)
        ELSE Outcome("Ok", dropped(t2.L), m.stored,
                     << ProblemResolved(number, a, b, who) >>, c, moved1 + moved2)

\* a resolve_problem that checks the answer before it looks the number up
resolve_answer_first(L0, map, who, number, a, b) ==
    LET c0 == Call("resolve", who, number, 0, a, b, 0, 0)
        found == get(map, number)
    IN  IF wrong_answer(number, a, b)
        THEN Outcome("WrongAnswer", L0, map, << >>, c0, 0)
        ELSE IF found = None
        THEN Outcome("InexistentNumber", L0, map, << >>, c0, 0)
        ELSE IF found[1].resolver # None
        THEN Outcome("AlreadyResolved", L0, map, << >>, c0, 0)
        ELSE settle(L0, map, who, found[1], a, b)

\* the body of resolve_problem, from the ledger L0 and the store map
resolve_call(L0, map, who, number, a, b) ==
    LET c0 == Call("resolve", who, number, 0, a, b, 0, 0)
        found == get(map, number)
    IN  IF found = None
        THEN Outcome("InexistentNumber", L0, map, << >>, c0, 0)
        ELSE IF found[1].resolver # None
        THEN Outcome("AlreadyResolved", L0, map, << >>, c0, 0)
        ELSE IF wrong_answer(number, a, b)
        THEN Outcome("WrongAnswer", L0, map, << >>, c0, 0)
        ELSE settle(L0, map, who, found[1], a, b)

resolve_problem(who, number, a, b) ==
    /\ Len(events) < MaxEvents
    /\ Commit(resolve_call(Ledger(free, reserved, TotalIssuance), ProblemsMap,
                           who, number, a, b))

Next ==
    \/ \E who \in Users, number \in Numbers, reward \in Rewards :
          submit_problem(who, number, reward)
    \/ \E who \in Users, number \in Numbers, ab \in Answers :
          resolve_problem(who, number, ab[1], ab[2])

Spec == Init /\ [][Next]_vars

----------------------------------------------------------------------------
(* The test of is_prime *)

\* tests::PRIMES
PRIMES == {2, 3, 5, 7, 11, 13, 17, 19, 23, 29, 31, 37, 41, 43, 47, 53, 59, 61,
           67, 71, 73, 79, 83, 89, 97}

\* tests::test_prime runs n over 0..100 (exclusive)
TestRange == 100

\* the state before is_prime is applied to n, one state for each n
InitPrime ==
    /\ ProblemsMap = << >>
    /\ free = GenesisFree
    /\ reserved = [w \in Accounts |-> 0]
    /\ TotalIssuance = GenesisFree["alice"] + GenesisFree["bob"] + GenesisFree[account_id]
    /\ events = << >>
    /\ \E n \in 0..(TestRange - 1) :
          call = Call("is_prime", "alice", n, 0, 0, 0, 0, 0)
    /\ result = "None"
    /\ paid = [n \in Numbers |-> 0]

\* one call of is_prime, on the number of the state
test_prime ==
    /\ call.op = "is_prime" /\ result = "None"
    /\ result' = IF is_prime(call.number) THEN "true" ELSE "false"
    /\ UNCHANGED << ProblemsMap, free, reserved, TotalIssuance, events, call, paid >>

NextPrime == test_prime

SpecPrime == InitPrime /\ [][NextPrime]_vars

----------------------------------------------------------------------------
(* Vocabulary of the properties *)

\* how many resolve_problem calls on this number have succeeded
ResolveCount(number) ==
    Cardinality({ i \in 1..Len(events) :
                    events[i].kind = "ProblemResolved" /\ events[i].number = number })

\* n is a prime number
IsPrimeNumber(n) == n > 1 /\ \A d \in 1..n : (n % d = 0) => (d = 1 \/ d = n)

\* the problem of this number is stored and Open
Open(number) ==
    number \in DOMAIN ProblemsMap /\ ProblemsMap[number].resolver = None

\* a resolve_problem on this number has succeeded
WasResolved(number) ==
    \E i \in 1..Len(events) :
        events[i].kind = "ProblemResolved" /\ events[i].number = number

\* how many submit_problem calls on this number have succeeded
SubmitCount(number) ==
    Cardinality({ i \in 1..Len(events) :
                    events[i].kind = "ProblemSubmited" /\ events[i].number = number })

\* the sum of the rewards of the Open problems of the numbers in S that who
\* submitted
RECURSIVE OpenRewards(_, _)
OpenRewards(S, who) ==
    IF S = {} THEN 0
    ELSE LET n == CHOOSE x \in S : TRUE
         IN  (IF ProblemsMap[n].resolver = None /\ ProblemsMap[n].submitter = who
              THEN ProblemsMap[n].reward ELSE 0)
             + OpenRewards(S \ {n}, who)

\* the sum of free and reserved balance over the accounts of S in ledger L
RECURSIVE TotalBalance(_, _)
TotalBalance(L, S) ==
    IF S = {} THEN 0
    ELSE LET w == CHOOSE x \in S : TRUE
         IN  total(L, w) + TotalBalance(L, S \ {w})

\* the ledger at genesis
GenesisLedger ==
    Ledger(GenesisFree, [w \in Accounts |-> 0],
           GenesisFree["alice"] + GenesisFree["bob"] + GenesisFree[account_id])

LedgerUnchanged ==
    free' = free /\ reserved' = reserved /\ TotalIssuance' = TotalIssuance

\* the errors of the ledger, as opposed to the pallet's own
LedgerErrors == {"InsufficientBalance", "Overflow", "ExistentialDeposit",
                 "KeepAlive", "LiquidityRestrictions"}

\* the ledger of the current state
CurrentLedger == Ledger(free, reserved, TotalIssuance)

----------------------------------------------------------------------------
(* C1 *)

\* C1: every resolve_problem call that returns an error leaves the stored
\* Problem record and the submitter's reserved balance as they were before
\* the call.
C1_FailedResolveChangesNothing ==
    [][ (call'.op = "resolve" /\ result' # "Ok")
          => /\ ProblemsMap' = ProblemsMap
             /\ call'.number \in DOMAIN ProblemsMap
                  => reserved'[ProblemsMap[call'.number].submitter]
                       = reserved[ProblemsMap[call'.number].submitter] ]_vars

----------------------------------------------------------------------------
(* C2 *)

\* C2: a submit_problem for a number that is already a key of the store
\* fails with AlreadySubmitted whatever the reward and the caller, changes
\* neither the store nor any balance and deposits no event; and no number
\* has more than one successful submission.
C2_SubmitOncePerNumber ==
    [][ /\ (call'.op = "submit" /\ call'.number \in DOMAIN ProblemsMap)
              => /\ result' = "AlreadySubmitted"
                 /\ ProblemsMap' = ProblemsMap
                 /\ LedgerUnchanged
                 /\ events' = events
        /\ \A n \in Numbers : SubmitCount(n)' <= 1 ]_vars

\* a number whose resolve_problem has already succeeded is submitted again,
\* by another caller with another reward than the stored ones, and refused
C2_Witness ==
    /\ call.op = "submit" /\ result = "AlreadySubmitted"
    /\ call.number \in DOMAIN ProblemsMap
    /\ WasResolved(call.number)
    /\ ProblemsMap[call.number].submitter # call.who
    /\ ProblemsMap[call.number].reward # call.reward
    /\ SubmitCount(call.number) = 1

----------------------------------------------------------------------------
(* C3 *)

\* C3: once a resolve_problem on a number has succeeded, every later
\* resolve_problem on that number fails with AlreadyResolved and leaves the
\* stored record as it is.
C3_ResolvedIsFinal ==
    [][ (call'.op = "resolve" /\ WasResolved(call'.number))
          => (result' = "AlreadyResolved" /\ ProblemsMap' = ProblemsMap) ]_vars

----------------------------------------------------------------------------
(* C4 *)

\* C4: every stored Problem whose solution is Some((a, b)) has
\* a * b = number with a and b prime and has a resolver; a Problem without a
\* resolver has no solution.
C4_StoredSolutionIsFactorization ==
    \A n \in DOMAIN ProblemsMap :
        LET p == ProblemsMap[n]
        IN  /\ p.solution # None
                 => /\ p.solution[1][1] * p.solution[1][2] = p.number
                    /\ IsPrimeNumber(p.solution[1][1])
                    /\ IsPrimeNumber(p.solution[1][2])
                    /\ p.resolver # None
            /\ p.resolver = None => p.solution = None

\* a resolve_problem has just succeeded on a stored problem, which has no
\* resolver and no solution
C4_Witness ==
    /\ call.op = "resolve" /\ result = "Ok"
    /\ call.number \in DOMAIN ProblemsMap
    /\ ProblemsMap[call.number].resolver = None
    /\ ProblemsMap[call.number].solution = None

----------------------------------------------------------------------------
(* C5 *)

\* C5: the reserved balance of every account is at least the sum of the
\* rewards of the Open problems it submitted.
C5_OpenRewardsStayReserved ==
    \A w \in Accounts : reserved[w] >= OpenRewards(DOMAIN ProblemsMap, w)

----------------------------------------------------------------------------
(* C6 *)

\* C6: the two amounts a successful resolve_problem transfers add up to the
\* reward exactly, the resolver's share being at most floor(reward * 80 / 100)
\* so that the remainder of the division is in the treasury's share.
C6_SplitConservesReward ==
    (call.op = "resolve" /\ result = "Ok")
      => LET r == ProblemsMap[call.number].reward
         IN  /\ call.to_resolver + call.to_treasury = r
             /\ call.to_resolver <= (r * 80) \div 100
             /\ call.to_treasury >= r - (r * 80) \div 100

\* a successful resolve_problem of a reward that 100 does not divide evenly
C6_Witness ==
    /\ call.op = "resolve" /\ result = "Ok"
    /\ (ProblemsMap[call.number].reward * 80) % 100 # 0
    /\ call.to_resolver > 0 /\ call.to_treasury > 0

----------------------------------------------------------------------------
(* C7 *)

\* C7: a resolve_problem(number, a, b) with a and b prime and a * b = number,
\* issued while the problem is Open, succeeds, and the record becomes
\* Resolved with solution (a, b) and resolver = caller.
C7_RightAnswerResolves ==
    [][ (/\ call'.op = "resolve"
         /\ Open(call'.number)
         /\ call'.a * call'.b = call'.number
         /\ IsPrimeNumber(call'.a) /\ IsPrimeNumber(call'.b))
          => /\ result' = "Ok"
             /\ ProblemsMap'[call'.number].solution = Some(<< call'.a, call'.b >>)
             /\ ProblemsMap'[call'.number].resolver = Some(call'.who) ]_vars

----------------------------------------------------------------------------
(* C8 *)

\* C8: a successful resolve_problem on a problem of reward r, with
\* submitter, resolver and treasury distinct, adds floor(r * 80 / 100) to the
\* resolver's free balance and the rest of r to the treasury's, takes r off
\* the submitter's reserved balance and leaves the submitter's free balance.
C8_PayoutAmounts ==
    [][ (/\ call'.op = "resolve" /\ result' = "Ok"
         /\ ProblemsMap[call'.number].submitter # call'.who
         /\ call'.who # account_id
         /\ ProblemsMap[call'.number].submitter # account_id)
          => LET r == ProblemsMap[call'.number].reward
                 s == ProblemsMap[call'.number].submitter
                 share == (r * 80) \div 100
             IN  /\ free'[call'.who] = free[call'.who] + share
                 /\ free'[account_id] = free[account_id] + (r - share)
                 /\ reserved'[s] = reserved[s] - r
                 /\ free'[s] = free[s] ]_vars

----------------------------------------------------------------------------
(* C9 *)

\* C9: on an Open problem, a resolve_problem whose a * b exceeds the largest
\* Number fails with WrongAnswer, also when the product wrapped to the
\* width of Number equals the problem's number, and changes nothing.
C9_OverflowIsWrongAnswer ==
    [][ (/\ call'.op = "resolve"
         /\ Open(call'.number)
         /\ call'.a * call'.b > NumberMax)
          => /\ result' = "WrongAnswer"
             /\ ProblemsMap' = ProblemsMap
             /\ LedgerUnchanged ]_vars

\* two primes whose product overflows and wraps to the number of an Open
\* problem have been refused
C9_Witness ==
    /\ call.op = "resolve" /\ result = "WrongAnswer"
    /\ Open(call.number)
    /\ call.a * call.b > NumberMax
    /\ (call.a * call.b) % (NumberMax + 1) = call.number
    /\ IsPrimeNumber(call.a) /\ IsPrimeNumber(call.b)

----------------------------------------------------------------------------
(* C10 *)

\* C10: on an Open problem, a resolve_problem with a * b # number, or a not
\* prime, or b not prime fails with WrongAnswer; the problem stays as it is
\* and no balance changes.
C10_WrongAnswerRejected ==
    [][ (/\ call'.op = "resolve"
         /\ Open(call'.number)
         /\ \/ call'.a * call'.b # call'.number
            \/ ~ IsPrimeNumber(call'.a)
            \/ ~ IsPrimeNumber(call'.b))
          => /\ result' = "WrongAnswer"
             /\ ProblemsMap' = ProblemsMap
             /\ LedgerUnchanged
             /\ events' = events ]_vars

\* a right product of composite factors (16 = 4 * 4) has been refused, the
\* trivial factorization 1 * number of another Open problem being refused
\* too
C10_Witness ==
    /\ call.op = "resolve" /\ result = "WrongAnswer"
    /\ Open(call.number)
    /\ call.a * call.b = call.number
    /\ ~ IsPrimeNumber(call.a) /\ ~ IsPrimeNumber(call.b)
    /\ call.a > 1 /\ call.b > 1

----------------------------------------------------------------------------
(* C11 *)

\* C11: a submit_problem whose reserve fails (the number not being stored
\* and the reward exceeding the caller's free balance) returns the ledger's
\* error; and a submit_problem that returns a ledger error inserts no record
\* for the number, changes no balance and deposits no event, so that the
\* number is still free to be submitted.
C11_FailedReserveChangesNothing ==
    [][ /\ (/\ call'.op = "submit"
            /\ call'.number \notin DOMAIN ProblemsMap
            /\ call'.reward > free[call'.who])
              => result' = "InsufficientBalance"
        /\ (call'.op = "submit" /\ result' \in LedgerErrors)
              => /\ ProblemsMap' = ProblemsMap
                 /\ call'.number \notin DOMAIN ProblemsMap'
                 /\ LedgerUnchanged
                 /\ events' = events ]_vars

\* a submit_problem of a number that is not stored has failed on the
\* reserve, and the number is still not stored
C11_Witness ==
    /\ call.op = "submit" /\ result = "InsufficientBalance"
    /\ call.reward > free[call.who]
    /\ call.number \notin DOMAIN ProblemsMap
    /\ SubmitCount(call.number) = 0

----------------------------------------------------------------------------
(* C12 *)

\* C12: a resolve_problem on a number that is not a key of the store fails
\* with InexistentNumber, whoever calls and whatever a and b, and changes
\* nothing.
C12_AbsentNumber ==
    [][ (call'.op = "resolve" /\ call'.number \notin DOMAIN ProblemsMap)
          => /\ result' = "InexistentNumber"
             /\ ProblemsMap' = ProblemsMap
             /\ LedgerUnchanged
             /\ events' = events ]_vars

\* the right factors of a number that was never submitted have been refused
C12_Witness ==
    /\ call.op = "resolve" /\ result = "InexistentNumber"
    /\ call.number \notin DOMAIN ProblemsMap
    /\ SubmitCount(call.number) = 0
    /\ call.a * call.b = call.number
    /\ IsPrimeNumber(call.a) /\ IsPrimeNumber(call.b)

----------------------------------------------------------------------------
(* C13 *)

\* the store m2 is the store m1 but for the solution of number
SameButSolution(m1, m2, number) ==
    /\ DOMAIN m1 = DOMAIN m2
    /\ \A n \in DOMAIN m1 :
          IF n = number
          THEN [m1[n] EXCEPT !.solution = None] = [m2[n] EXCEPT !.solution = None]
          ELSE m1[n] = m2[n]

\* C13: from the same state and for the same caller,
\* resolve_problem(number, a, b) and resolve_problem(number, b, a) return
\* the same result and leave the same balances; when they succeed the
\* stored solution is (a, b) after the one and (b, a) after the other, and
\* the stores do not differ otherwise.
C13_FactorOrder ==
    \A who \in Users, number \in Numbers, ab \in Answers :
        LET o1 == resolve_call(CurrentLedger, ProblemsMap, who, number, ab[1], ab[2])
            o2 == resolve_call(CurrentLedger, ProblemsMap, who, number, ab[2], ab[1])
        IN  /\ o1.result = o2.result
            /\ o1.L = o2.L
            /\ SameButSolution(o1.map, o2.map, number)
            /\ o1.result = "Ok"
                 => /\ o1.map[number].solution = Some(<< ab[1], ab[2] >>)
                    /\ o2.map[number].solution = Some(<< ab[2], ab[1] >>)

\* the part of C13 about validity alone: same result, same balances, and
\* stores that differ at most in the solution of the number
FactorOrderValidity ==
    \A who \in Users, number \in Numbers, ab \in Answers :
        LET o1 == resolve_call(CurrentLedger, ProblemsMap, who, number, ab[1], ab[2])
            o2 == resolve_call(CurrentLedger, ProblemsMap, who, number, ab[2], ab[1])
        IN  /\ o1.result = o2.result
            /\ o1.L = o2.L
            /\ SameButSolution(o1.map, o2.map, number)

----------------------------------------------------------------------------
(* C14 *)

\* C14: no call removes a key of the store; the number (which is the key),
\* the reward and the submitter of a stored record never change; a stored
\* record changes only from Open to Resolved, in a successful
\* resolve_problem on its number, every other record staying as it is; a
\* record that has a resolver keeps it.
C14_StoreIsMonotonic ==
    [][ \A n \in DOMAIN ProblemsMap :
          /\ n \in DOMAIN ProblemsMap'
          /\ ProblemsMap[n].number = n
          /\ ProblemsMap'[n].number = n
          /\ ProblemsMap'[n].reward = ProblemsMap[n].reward
          /\ ProblemsMap'[n].submitter = ProblemsMap[n].submitter
          /\ ProblemsMap[n].resolver # None => ProblemsMap'[n] = ProblemsMap[n]
          /\ ProblemsMap'[n] # ProblemsMap[n]
               => /\ ProblemsMap[n].resolver = None
                  /\ ProblemsMap'[n].resolver # None
                  /\ call'.op = "resolve" /\ call'.number = n /\ result' = "Ok"
                  /\ \A k \in DOMAIN ProblemsMap \ {n} :
                        ProblemsMap'[k] = ProblemsMap[k] ]_vars

\* a second number has been submitted after a resolve_problem on the first
\* succeeded, and the record of the first is still what its submit_problem
\* inserted
C14_Witness ==
    /\ Len(events) >= 3
    /\ events[1].kind = "ProblemSubmited"
    /\ events[2].kind = "ProblemResolved" /\ events[2].number = events[1].number
    /\ events[3].kind = "ProblemSubmited" /\ events[3].number # events[1].number
    /\ DOMAIN ProblemsMap = {events[1].number, events[3].number}
    /\ ProblemsMap[events[1].number]
         = Problem(events[1].number, events[1].reward, None, events[1].who, None)

----------------------------------------------------------------------------
(* C15 *)

\* C15: a successful submit_problem deposits exactly one
\* ProblemSubmited(number, reward, caller) and a successful resolve_problem
\* exactly one ProblemResolved(number, a, b, caller), a failed call deposits
\* nothing; the fields of the event are those written to the store; and each
\* number has at most one ProblemSubmited and at most one ProblemResolved
\* event, the former before the latter.
C15_OneEventPerSuccess ==
    [][ /\ (call'.op = "submit" /\ result' = "Ok")
              => /\ events' = Append(events,
                       ProblemSubmited(call'.number, call'.reward, call'.who))
                 /\ ProblemsMap'[call'.number].reward = call'.reward
                 /\ ProblemsMap'[call'.number].submitter = call'.who
        /\ (call'.op = "resolve" /\ result' = "Ok")
              => /\ events' = Append(events,
                       ProblemResolved(call'.number, call'.a, call'.b, call'.who))
                 /\ ProblemsMap'[call'.number].solution = Some(<< call'.a, call'.b >>)
                 /\ ProblemsMap'[call'.number].resolver = Some(call'.who)
        /\ result' # "Ok" => events' = events
        /\ \A n \in Numbers :
              /\ SubmitCount(n)' <= 1
              /\ ResolveCount(n)' <= 1
              /\ \A i \in 1..Len(events') :
                    (events'[i].kind = "ProblemResolved" /\ events'[i].number = n)
                      => \E j \in 1..(i - 1) :
                            /\ events'[j].kind = "ProblemSubmited"
                            /\ events'[j].number = n ]_vars

\* what holds of the events of the code: one event for each success, of the
\* call's arguments, none for a failure, and a number's ProblemSubmited
\* single and before its ProblemResolved events
EventsOfTheCode ==
    [][ /\ (call'.op = "submit" /\ result' = "Ok")
              => events' = Append(events,
                     ProblemSubmited(call'.number, call'.reward, call'.who))
        /\ (call'.op = "resolve" /\ result' = "Ok")
              => events' = Append(events,
                     ProblemResolved(call'.number, call'.a, call'.b, call'.who))
        /\ result' # "Ok" => events' = events
        /\ \A n \in Numbers : SubmitCount(n)' <= 1 ]_vars

----------------------------------------------------------------------------
(* C16 *)

\* C16: for every n in [0, 100), is_prime(n) is true exactly when n is one
\* of the primes 2, 3, 5, ..., 97 (which are the prime numbers below 100);
\* it is false for 0 and 1.
C16_IsPrimeBelow100 ==
    (call.op = "is_prime" /\ result # "None")
      => /\ (result = "true") <=> (call.number \in PRIMES)
         /\ (result = "true") <=> IsPrimeNumber(call.number)
         /\ call.number \in {0, 1} => result = "false"

\* is_prime has answered for 1 (not a prime) and, in another state, for 97
C16_Witness ==
    /\ call.op = "is_prime"
    /\ \/ call.number = 1 /\ result = "false"
       \/ call.number = 97 /\ result = "true"

----------------------------------------------------------------------------
(* C17 *)

\* C17: the reserved balance of every account is exactly the sum of the
\* rewards of the Open problems it submitted, so that nothing of a resolved
\* problem's reward stays reserved.
C17_ReservedIsOpenRewards ==
    \A w \in Accounts : reserved[w] = OpenRewards(DOMAIN ProblemsMap, w)

----------------------------------------------------------------------------
(* C18 *)

\* C18: what has been moved out of a submitter's account to resolvers and
\* the treasury on account of one problem never exceeds the problem's reward
\* and is zero while the problem is Open.
C18_PaidAtMostOnce ==
    \A n \in DOMAIN ProblemsMap :
        /\ paid[n] <= ProblemsMap[n].reward
        /\ Open(n) => paid[n] = 0

----------------------------------------------------------------------------
(* C19 *)

\* C19: the sum of free and reserved balance over all accounts, and the
\* total issuance, are those of genesis after any sequence of calls.
C19_ValueIsConserved ==
    /\ TotalBalance(CurrentLedger, Accounts) = TotalBalance(GenesisLedger, Accounts)
    /\ TotalIssuance = GenesisLedger.issuance

\* a resolve_problem has burnt the reward and has failed on its second
\* transfer after the first moved funds
C19_Witness ==
    /\ call.op = "resolve" /\ result = "KeepAlive"
    /\ call.to_resolver > 0
    /\ free[call.who] > GenesisFree[call.who]

----------------------------------------------------------------------------
(* C20 *)

\* the answer (a, b) passes the answer check for number
RightAnswer(number, a, b) ==
    /\ a * b <= NumberMax
    /\ a * b = number
    /\ IsPrimeNumber(a) /\ IsPrimeNumber(b)

\* C20: resolve_problem checks existence, then already-resolved, then the
\* answer: on an absent number it returns InexistentNumber and on a record
\* that has a resolver AlreadyResolved, whatever the answer; it returns
\* WrongAnswer only on a stored Open problem, for a wrong answer; and a
\* ledger error only on a stored Open problem whose answer is right.
C20_CheckOrder ==
    [][ call'.op = "resolve"
          => /\ call'.number \notin DOMAIN ProblemsMap
                  => result' = "InexistentNumber"
             /\ (/\ call'.number \in DOMAIN ProblemsMap
                 /\ ProblemsMap[call'.number].resolver # None)
                  => result' = "AlreadyResolved"
             /\ result' = "WrongAnswer"
                  => /\ Open(call'.number)
                     /\ ~ RightAnswer(call'.number, call'.a, call'.b)
             /\ result' \in LedgerErrors
                  => /\ Open(call'.number)
                     /\ RightAnswer(call'.number, call'.a, call'.b) ]_vars

\* an overflowing answer on a number that is not stored has been answered
\* InexistentNumber, while another number is stored and Open
C20_Witness ==
    /\ call.op = "resolve" /\ result = "InexistentNumber"
    /\ call.number \notin DOMAIN ProblemsMap
    /\ call.a * call.b > NumberMax
    /\ \E n \in Numbers : Open(n)

====
